---- MODULE Spec2Model ----
(***************************************************************************)
(* Model of read_from_file of otio_drp_adapter/adapters/drp.py: the        *)
(* conversion of a Blackmagic ATEM .drp switch log (a JSON header line and *)
(* one JSON line per switch) into a single-track timeline.                 *)
(*                                                                         *)
(* JSON objects are records.  A key that may be missing is a boolean next  *)
(* to its value (hasSources/sources, hasFile/file, hasSource/source).      *)
(* mixEffectBlocks is [shape, hasSource, source]: shape "absent" is a      *)
(* missing key, "empty" is the array [], "first" an array with a first     *)
(* element.  A timecode "HH:MM:SS:FF" is the tuple <<HH, MM, SS, FF>>, a   *)
(* string whose characters matter (videoMode) the sequence of the code     *)
(* points of its characters.                                               *)
(* A RationalTime is [value, rate]; opentimelineio values are copied, not  *)
(* shared, by its arithmetic and by TimeRange.                             *)
(*                                                                         *)
(* The inputs are headers with masterTimecode and videoMode present, a     *)
(* videoMode whose rate is positive when it is an integer at all, and      *)
(* events with masterTimecode and a first mixEffectBlocks element present. *)
(* Numbers are the integers of the model checker: rates, timecodes and     *)
(* frame counts stay below 2^31.                                           *)
(***************************************************************************)
EXTENDS Integers, Sequences, FiniteSets, TLC

VARIABLES metadata, timeline_data, pc, rate, tc_ref, current_tc,
          available_range, extrefs, current_source, track, pos, error, result

vars == <<metadata, timeline_data, pc, rate, tc_ref, current_tc,
          available_range, extrefs, current_source, track, pos, error, result>>

(***************************************************************************)
(* metadata, timeline_data: the decoded header and switch lines.           *)
(* rate, tc_ref, current_tc, available_range, extrefs, current_source:     *)
(* the locals of the same names.  track: the clips appended to the track.  *)
(* pos: the position of the for loop in timeline_data.  pc: the step to    *)
(* run next, "done" after the return, "failed" after an exception.         *)
(* error: the exception that left the function, with the line raising it.  *)
(* result: "timeline" once the timeline is returned.                       *)
(***************************************************************************)

(*************************** bounds and inputs *****************************)

\* Largest number of switch lines of an input file.
MaxEvents == 3

\* ord(ch) of the characters the video modes below are written with.
Ord(ch) ==
    CASE ch = "0" -> 48 [] ch = "1" -> 49 [] ch = "2" -> 50 [] ch = "3" -> 51
      [] ch = "4" -> 52 [] ch = "5" -> 53 [] ch = "6" -> 54 [] ch = "7" -> 55
      [] ch = "8" -> 56 [] ch = "9" -> 57 [] ch = "i" -> 105 [] ch = "p" -> 112

\* A string as the sequence of its code points.
Codes(chars) == [n \in 1..Len(chars) |-> Ord(chars[n])]

Mode1080p25 == Codes(<<"1", "0", "8", "0", "p", "2", "5">>)

\* "720p50" with its rate as JSON may also carry it: a fullwidth five
\* (U+FF15), a zero, a vertical tab (U+000B) after it.
Mode720p50 == Codes(<<"7", "2", "0", "p">>) \o <<65301, 48, 11>>

\* Video modes that are not "<digits>p<digits>": no rate, no separator.
Mode1080p == Codes(<<"1", "0", "8", "0", "p">>)

Mode1080i50 == Codes(<<"1", "0", "8", "0", "i", "5", "0">>)

\* The clock of a header: its reference timecode and its video mode.
HeaderClocks ==
    { [masterTimecode |-> <<0, 0, 0, 0>>, videoMode |-> Mode1080p25],
      [masterTimecode |-> <<0, 0, 1, 0>>, videoMode |-> Mode720p50] }

\* Clocks whose video mode cannot be read.
BrokenClocks ==
    { [masterTimecode |-> <<0, 0, 0, 0>>, videoMode |-> Mode1080p],
      [masterTimecode |-> <<0, 0, 1, 0>>, videoMode |-> Mode1080i50] }

EventTimecodes == {<<0, 0, 1, 0>>, <<0, 0, 2, 0>>, <<0, 1, 0, 12>>}

\* Source indices a switch may carry; the catalogues below know only some.
SwitchIndices == {0, 1}

MebAbsent == [shape |-> "absent", hasSource |-> FALSE, source |-> 0]

MebEmpty == [shape |-> "empty", hasSource |-> FALSE, source |-> 0]

MebNoSource == [shape |-> "first", hasSource |-> FALSE, source |-> 0]

MebSource(i) == [shape |-> "first", hasSource |-> TRUE, source |-> i]

Cam1 == [index |-> 0, name |-> "Camera 1", hasFile |-> TRUE, file |-> "cam1.mp4"]

Cam2 == [index |-> 1, name |-> "Camera 2", hasFile |-> FALSE, file |-> ""]

Cam2File == [index |-> 1, name |-> "Camera 2", hasFile |-> TRUE, file |-> "cam2.mp4"]

Still == [index |-> 2, name |-> "Media Player", hasFile |-> FALSE, file |-> ""]

\* hasSources = FALSE: no "sources" key; <<>>: "sources": [].
Catalogues ==
    { [hasSources |-> FALSE, sources |-> <<>>],
      [hasSources |-> TRUE, sources |-> <<>>],
      [hasSources |-> TRUE, sources |-> <<Cam1, Cam2>>],
      [hasSources |-> TRUE, sources |-> <<Cam2File, Still>>] }

HeaderMebs == {MebAbsent, MebEmpty, MebNoSource} \cup {MebSource(i) : i \in {0, 1}}

Header(clock, cat, meb) ==
    [masterTimecode |-> clock.masterTimecode, videoMode |-> clock.videoMode,
     hasSources |-> cat.hasSources, sources |-> cat.sources,
     mixEffectBlocks |-> meb]

\* Every catalogue and initial scene under a readable video mode; every
\* catalogue, with the first source on air, under an unreadable one.
Headers ==
    { Header(clock, cat, meb) :
         clock \in HeaderClocks, cat \in Catalogues, meb \in HeaderMebs }
    \cup
    { Header(clock, cat, MebSource(0)) :
         clock \in BrokenClocks, cat \in Catalogues }

EventMebs == {MebNoSource} \cup {MebSource(i) : i \in SwitchIndices}

Events ==
    { [masterTimecode |-> tc, mixEffectBlocks |-> meb] :
         tc \in EventTimecodes, meb \in EventMebs }

EventSeqs == UNION { [1..n -> Events] : n \in 0..MaxEvents }

(*************************** library operations ****************************)

\* opentime.RationalTime(value, rate)
RationalTime(v, r) == [value |-> v, rate |-> r]

NoTime == RationalTime(0, 0)

\* RationalTime.__sub__ and __add__ of two times of the same rate.
RTSub(a, b) == RationalTime(a.value - b.value, a.rate)

RTAdd(a, b) == RationalTime(a.value + b.value, a.rate)

\* opentime.TimeRange(start_time, duration)
TimeRange(start, dur) == [start_time |-> start, duration |-> dur]

NoRange == TimeRange(NoTime, NoTime)

\* opentime.from_timecode of a non-drop-frame "HH:MM:SS:FF" at an integer rate.
from_timecode(tc, r) ==
    RationalTime(((tc[1] * 60 + tc[2]) * 60 + tc[3]) * r + tc[4], r)

None == [kind |-> "None"]

\* schema.ExternalReference(target_url, available_range)
ExternalReference(url, range) ==
    [kind |-> "ExternalReference", target_url |-> url, available_range |-> range]

\* schema.Clip(name, media_reference, source_range): the arguments the clip is
\* built with, None included (what the library keeps in place of None is its
\* own business).
Clip(name, ref, range) ==
    [name |-> name, media_reference |-> ref, source_range |-> range]

\* The code points of the digit zero of every script: the decimal digits of
\* Unicode 14 (Python 3.11) are the ten code points from each of them.
DecimalZeros ==
    { 48, 1632, 1776, 1984, 2406, 2534, 2662, 2790, 2918, 3046, 3174,
      3302, 3430, 3558, 3664, 3792, 3872, 4160, 4240, 6112, 6160,
      6470, 6608, 6784, 6800, 6992, 7088, 7232, 7248, 42528, 43216,
      43264, 43472, 43504, 43600, 44016, 65296, 66720, 68912, 69734,
      69872, 69942, 70096, 70384, 70736, 70864, 71248, 71360, 71472,
      71904, 72016, 72784, 73040, 73120, 92768, 92864, 93008, 120782,
      120792, 120802, 120812, 120822, 123200, 123632, 125264, 130032 }

\* A character int() reads as a decimal digit, and the digit it reads.
IsDigit(c) ==
    \/ 48 <= c /\ c <= 57
    \/ \E z \in DecimalZeros : z <= c /\ c <= z + 9

DigitValue(c) ==
    IF 48 <= c /\ c <= 57 THEN c - 48
    ELSE c - (CHOOSE z \in DecimalZeros : z <= c /\ c <= z + 9)

\* A character int() strips as white space: tab to carriage return, space,
\* and the spaces beyond ASCII (U+0085, U+00A0, U+1680, U+2000-U+200A, U+2028,
\* U+2029, U+202F, U+205F, U+3000); not U+001C-U+001F.
IsSpace(c) ==
    \/ 9 <= c /\ c <= 13
    \/ c \in {32, 133, 160, 5760, 8232, 8233, 8239, 8287, 12288}
    \/ 8192 <= c /\ c <= 8202

\* The string int() reads: the white space at either end dropped (that of
\* IsSpace, which is not all of str.strip()).
Strip(s) ==
    LET ink == {i \in 1..Len(s) : ~IsSpace(s[i])}
    IN  IF ink = {} THEN <<>>
        ELSE SubSeq(s,
                    CHOOSE i \in ink : \A j \in ink : i <= j,
                    CHOOSE i \in ink : \A j \in (i + 1)..Len(s) : j \notin ink)

\* The most digits int() converts (sys.get_int_max_str_digits() of Python
\* 3.11, as the interpreter starts): beyond them it raises ValueError.
IntMaxStrDigits == 4300

\* The digits int() accepts: at least one, single underscores (95) between
\* them, no more than IntMaxStrDigits digits, underscores not counted.
DecimalDigits(d) ==
    /\ Len(d) > 0
    /\ Cardinality({i \in 1..Len(d) : d[i] # 95}) <= IntMaxStrDigits
    /\ \A i \in 1..Len(d) :
          \/ IsDigit(d[i])
          \/ /\ d[i] = 95
             /\ 1 < i
             /\ i < Len(d)
             /\ IsDigit(d[i - 1])
             /\ IsDigit(d[i + 1])

\* The digits that count in accepted digits: underscores and leading zeros
\* left out.
Significant(d) ==
    LET ds == SelectSeq(d, LAMBDA c : c # 95)
        nonzero == {i \in 1..Len(ds) : DigitValue(ds[i]) # 0}
    IN  IF nonzero = {} THEN <<>>
        ELSE SubSeq(ds, CHOOSE i \in nonzero : \A j \in nonzero : i <= j,
                    Len(ds))

\* The number written by digits.
RECURSIVE NumberOf(_)
NumberOf(ds) ==
    IF Len(ds) = 0 THEN 0
    ELSE NumberOf(SubSeq(ds, 1, Len(ds) - 1)) * 10 + DigitValue(ds[Len(ds)])

\* The number written by accepted digits.
DecimalValue(d) == NumberOf(Significant(d))

\* int(s) of a string: white space around, an optional sign ("+" 43, "-" 45),
\* decimal digits; anything else (the empty string, "29.97") raises ValueError.
ParseInt(s) ==
    LET body == Strip(s)
        signed == Len(body) > 0 /\ body[1] \in {43, 45}
        digits == IF signed THEN Tail(body) ELSE body
    IN  IF ~DecimalDigits(digits) THEN [raises |-> TRUE, value |-> 0]
        ELSE [raises |-> FALSE,
              value |-> IF signed /\ body[1] = 45 THEN 0 - DecimalValue(digits)
                        ELSE DecimalValue(digits)]

\* str.split(sep): the pieces of s between the occurrences of sep.
Split(s, sep) ==
    LET at == {i \in 1..Len(s) : s[i] = sep}
        n == Cardinality(at)
        cut(k) == IF k = 0 THEN 0
                  ELSE IF k = n + 1 THEN Len(s) + 1
                  ELSE CHOOSE i \in at : Cardinality({j \in at : j < i}) = k - 1
    IN  [k \in 1..(n + 1) |-> SubSeq(s, cut(k - 1) + 1, cut(k) - 1)]

(*************************** steps of read_from_file ***********************)

NoError == [type |-> "none", line |-> 0]

Raise(type, line) == [type |-> type, line |-> line]

\* widths, rates = metadata["videoMode"].split("p"); rate = int(rates):
\* the rate, or the line whose ValueError ends the call (38: not two pieces
\* to unpack, 39: rates is no integer).
VideoRate(videoMode) ==
    LET parts == Split(videoMode, Ord("p"))
    IN  IF Len(parts) # 2 THEN [raises |-> TRUE, line |-> 38, value |-> 0]
        ELSE LET n == ParseInt(parts[2])
             IN  [raises |-> n.raises, line |-> 39, value |-> n.value]

NoSourcesNever(md) == FALSE

\* "sources" not in metadata
NoSources(md) == ~md.hasSources

LastTimecodeOrZero(td) ==
    [raises |-> FALSE,
     value |-> IF Len(td) = 0 THEN <<0, 0, 0, 0>> ELSE td[Len(td)].masterTimecode]

\* timeline_data[-1]["masterTimecode"]: IndexError on an empty list.
LastTimecode(td) ==
    [raises |-> Len(td) = 0,
     value |-> IF Len(td) = 0 THEN <<0, 0, 0, 0>> ELSE td[Len(td)].masterTimecode]

ShowDurationFromZero(end_frame, ref) == end_frame

\* duration = end_frame - tc_ref
ShowDuration(end_frame, ref) == RTSub(end_frame, ref)

\* src["ref"]: an ExternalReference for a source with a file, else None.
SourceRef(src, range) ==
    IF src.hasFile THEN ExternalReference(src.file, range) ELSE None

KeyByPosition(src, n) == n - 1

\* The key of a source in extrefs: src["_index_"].
ExtrefKey(src, n) == src.index

\* The body of the loop over metadata["sources"], for the first n sources.
RECURSIVE ExtrefsUpTo(_, _, _)
ExtrefsUpTo(sources, range, n) ==
    IF n = 0 THEN [k \in {} |-> None]
    ELSE LET before == ExtrefsUpTo(sources, range, n - 1)
             src == sources[n]
             key == ExtrefKey(src, n)
             entry == [index |-> src.index, name |-> src.name,
                       ref |-> SourceRef(src, range)]
         IN  [k \in DOMAIN before \cup {key} |->
                  IF k = key THEN entry ELSE before[k]]

\* metadata["mixEffectBlocks"][0]["source"]: what it raises, or its value.
SceneLookup(md) ==
    LET meb == md.mixEffectBlocks
    IN  CASE meb.shape = "absent" -> [raises |-> "KeyError", value |-> 0]
          [] meb.shape = "empty" -> [raises |-> "IndexError", value |-> 0]
          [] ~meb.hasSource -> [raises |-> "KeyError", value |-> 0]
          [] OTHER -> [raises |-> "none", value |-> meb.source]

NextCursorJump(current, frames) == frames

\* current_tc += next_clip_frames
NextCursor(current, frames) == RTAdd(current, frames)

ContinuesAlways(c) == TRUE

\* "source" in c["mixEffectBlocks"][0]
Continues(c) == c.mixEffectBlocks.hasSource

SwitchIgnored(current, c) == current

\* current_source = c["mixEffectBlocks"][0]["source"]
SwitchTo(current, c) == c.mixEffectBlocks.source

Init ==
    /\ metadata \in Headers
    /\ timeline_data \in EventSeqs
    /\ pc = "setup"
    /\ rate = 0
    /\ tc_ref = NoTime
    /\ current_tc = NoTime
    /\ available_range = NoRange
    /\ extrefs = [k \in {} |-> None]
    /\ current_source = 0
    /\ track = <<>>
    /\ pos = 0
    /\ error = NoError
    /\ result = "none"

\* Lines 31-45: the rate of the video mode, the empty track, the sources check.
Setup ==
    /\ pc = "setup"
    /\ LET read == VideoRate(metadata.videoMode)
       IN  IF read.raises
           THEN /\ pc' = "failed"
                /\ error' = Raise("ValueError", read.line)
                /\ rate' = rate
           ELSE /\ rate' = read.value
                /\ IF NoSources(metadata)
                   THEN pc' = "failed" /\ error' = Raise("Exception", 45)
                   ELSE pc' = "range" /\ error' = error
    /\ UNCHANGED <<metadata, timeline_data, tc_ref, current_tc, available_range,
                   extrefs, current_source, track, pos, result>>

\* Lines 47-57: the reference, the cursor and the available range.
ComputeRange ==
    /\ pc = "range"
    /\ tc_ref' = from_timecode(metadata.masterTimecode, rate)
    /\ current_tc' = RationalTime(0, rate)
    /\ LET last_tc == LastTimecode(timeline_data)
       IN  IF last_tc.raises
           THEN /\ pc' = "failed"
                /\ error' = Raise("IndexError", 50)
                /\ available_range' = available_range
           ELSE /\ pc' = "extrefs"
                /\ error' = error
                /\ available_range' =
                      TimeRange(current_tc',
                                ShowDuration(from_timecode(last_tc.value, rate),
                                             tc_ref'))
    /\ UNCHANGED <<metadata, timeline_data, rate, extrefs, current_source,
                   track, pos, result>>

\* Lines 62-73: the dictionary of the sources by index.
BuildExtrefs ==
    /\ pc = "extrefs"
    /\ IF ~metadata.hasSources
       THEN /\ pc' = "failed"
            /\ error' = Raise("KeyError", 63)
            /\ extrefs' = extrefs
       ELSE /\ pc' = "scene"
            /\ error' = error
            /\ extrefs' = ExtrefsUpTo(metadata.sources, available_range,
                                      Len(metadata.sources))
    /\ UNCHANGED <<metadata, timeline_data, rate, tc_ref, current_tc,
                   available_range, current_source, track, pos, result>>

\* Lines 76-79: the scene chosen before the show starts.
InitialScene ==
    /\ pc = "scene"
    /\ LET got == SceneLookup(metadata)
       IN  CASE got.raises = "KeyError" ->
                  /\ current_source' = 0
                  /\ pc' = "loop"
                  /\ pos' = 1
                  /\ error' = error
             [] got.raises = "none" ->
                  /\ current_source' = got.value
                  /\ pc' = "loop"
                  /\ pos' = 1
                  /\ error' = error
             [] OTHER ->
                  /\ pc' = "failed"
                  /\ error' = Raise(got.raises, 77)
                  /\ UNCHANGED <<current_source, pos>>
    /\ UNCHANGED <<metadata, timeline_data, rate, tc_ref, current_tc,
                   available_range, extrefs, track, result>>

\* Lines 82-105: one iteration of the loop over the switches.
LoopIteration ==
    /\ pc = "loop"
    /\ pos <= Len(timeline_data)
    /\ LET c == timeline_data[pos]
           next_clip_tc == from_timecode(c.masterTimecode, rate)
           next_clip_frames == RTSub(next_clip_tc, tc_ref)
       IN  IF current_source \notin DOMAIN extrefs
           THEN /\ pc' = "failed"
                /\ error' = Raise("KeyError", 90)
                /\ UNCHANGED <<track, current_tc, current_source, pos>>
           ELSE /\ track' = Append(track,
                                   Clip(extrefs[current_source].name,
                                        extrefs[current_source].ref,
                                        TimeRange(current_tc, next_clip_frames)))
                /\ current_tc' = NextCursor(current_tc, next_clip_frames)
                /\ error' = error
                /\ IF Continues(c)
                   THEN /\ current_source' = SwitchTo(current_source, c)
                        /\ pos' = pos + 1
                        /\ pc' = IF pos < Len(timeline_data) THEN "loop" ELSE "return"
                   ELSE /\ pc' = "return"
                        /\ UNCHANGED <<current_source, pos>>
    /\ UNCHANGED <<metadata, timeline_data, rate, tc_ref, available_range,
                   extrefs, result>>

\* Line 107: return timeline
Return ==
    /\ pc = "return"
    /\ pc' = "done"
    /\ result' = "timeline"
    /\ UNCHANGED <<metadata, timeline_data, rate, tc_ref, current_tc,
                   available_range, extrefs, current_source, track, pos, error>>

Next ==
    \/ Setup
    \/ ComputeRange
    \/ BuildExtrefs
    \/ InitialScene
    \/ LoopIteration
    \/ Return

Spec == Init /\ [][Next]_vars

(*************************** what the claims speak of **********************)

\* The frame rate, the reference frame and the frame offsets of the input.
InputRate == VideoRate(metadata.videoMode).value

\* The video mode of the header is "<digits>p<digits>".
VideoModeValid == ~VideoRate(metadata.videoMode).raises

ReferenceFrame == from_timecode(metadata.masterTimecode, InputRate).value

EventFrame(i) ==
    from_timecode(timeline_data[i].masterTimecode, InputRate).value - ReferenceFrame

ClipStart(i) == track[i].source_range.start_time.value

ClipDuration(i) == track[i].source_range.duration.value

RECURSIVE SumOfDurations(_)
SumOfDurations(n) == IF n = 0 THEN 0 ELSE SumOfDurations(n - 1) + ClipDuration(n)

\* The indices of the catalogue of the header, and the entry of an index.
CatalogueKeys ==
    IF metadata.hasSources
    THEN {metadata.sources[n].index : n \in 1..Len(metadata.sources)}
    ELSE {}

CatalogueEntry(idx) ==
    metadata.sources[CHOOSE n \in 1..Len(metadata.sources) :
                        /\ metadata.sources[n].index = idx
                        /\ \A m \in (n + 1)..Len(metadata.sources) :
                              metadata.sources[m].index # idx]

\* The header's initial on-air setting is missing or malformed.
InitialSceneMissing ==
    \/ metadata.mixEffectBlocks.shape # "first"
    \/ ~metadata.mixEffectBlocks.hasSource

\* The source on air before the first event.
InitialIndex ==
    IF InitialSceneMissing THEN 0 ELSE metadata.mixEffectBlocks.source

\* The source on air before event k.
ActiveBefore(k) ==
    IF k = 1 THEN InitialIndex ELSE timeline_data[k - 1].mixEffectBlocks.source

\* The position of the first event without a switch, or the number of events.
HaltPosition ==
    IF \E k \in 1..Len(timeline_data) : ~timeline_data[k].mixEffectBlocks.hasSource
    THEN CHOOSE k \in 1..Len(timeline_data) :
            /\ ~timeline_data[k].mixEffectBlocks.hasSource
            /\ \A j \in 1..(k - 1) : timeline_data[j].mixEffectBlocks.hasSource
    ELSE Len(timeline_data)

EventsOrdered ==
    \A i \in 1..Len(timeline_data) : \A j \in i..Len(timeline_data) :
        EventFrame(i) <= EventFrame(j)

OnlyFinalMayLackSwitch ==
    \A i \in 1..(Len(timeline_data) - 1) : timeline_data[i].mixEffectBlocks.hasSource

Stopped == pc \in {"done", "failed"}

\* The conversion has a next step to take.
Running ==
    \/ pc \in {"setup", "range", "extrefs", "scene", "return"}
    \/ pc = "loop" /\ ENABLED LoopIteration

(*************************** the claims ************************************)

\* C1: the clips are contiguous: the first starts at frame 0, each next one
\* starts where the one before it ends, and after every iteration the cursor
\* is the end of the last clip.
C1_Contiguous ==
    Len(track) > 0 =>
        /\ ClipStart(1) = 0
        /\ \A i \in 1..(Len(track) - 1) :
              ClipStart(i + 1) = ClipStart(i) + ClipDuration(i)
        /\ current_tc.value = ClipStart(Len(track)) + ClipDuration(Len(track))

C1_Witness ==
    /\ result = "timeline"
    /\ Len(track) = 3
    /\ 0 < ClipStart(2)
    /\ ClipStart(2) < ClipStart(3)

\* C2: for events ordered by timecode of which only the last may lack a switch,
\* the durations of the clips of the returned timeline add up to the frame
\* offset of the last event from the reference.
C2_DurationsSumToShow ==
    (result = "timeline" /\ EventsOrdered /\ OnlyFinalMayLackSwitch) =>
        SumOfDurations(Len(track)) = EventFrame(Len(timeline_data))

\* C3: the clip of event e lasts from the cursor to the frame offset of e:
\* its duration is that offset minus its start.
C3_ClipEndsAtEvent ==
    \A i \in 1..Len(track) : ClipDuration(i) = EventFrame(i) - ClipStart(i)

\* C4: one clip per processed event, none for an event after the first one
\* without a switch: a returned timeline has as many clips as the position of
\* that event, or as there are events when every event carries a switch.
C4_OneClipPerEvent ==
    /\ Len(track) <= HaltPosition
    /\ pc = "loop" => Len(track) = pos - 1
    /\ result = "timeline" => Len(track) = HaltPosition

C4_Witness ==
    /\ result = "timeline"
    /\ Len(track) = 2
    /\ Len(timeline_data) = 3
    /\ timeline_data[1].mixEffectBlocks.source = InitialIndex
    /\ track[1].name = track[2].name

\* C5: every clip has the name and the media reference of the source on air
\* before its event: the header's initial source for the first clip, the index
\* carried by event k-1 for clip k; a source without a file gives a null
\* media reference, with the name and the time range as usual.
C5_ClipOfActiveSource ==
    LET clipRate == InputRate
    IN  \A k \in 1..Len(track) :
            /\ ActiveBefore(k) \in CatalogueKeys
            /\ LET entry == CatalogueEntry(ActiveBefore(k))
               IN  /\ track[k].name = entry.name
                   /\ entry.hasFile =>
                         /\ track[k].media_reference.kind = "ExternalReference"
                         /\ track[k].media_reference.target_url = entry.file
                   /\ ~entry.hasFile => track[k].media_reference = None
                   /\ track[k].source_range.start_time.rate = clipRate
                   /\ track[k].source_range.duration.rate = clipRate

C5_Witness ==
    /\ result = "timeline"
    /\ Len(track) = 3
    /\ track[1].media_reference = None
    /\ track[2].media_reference # None
    /\ track[3].media_reference = None

\* C6: a header whose initial on-air setting is missing, empty or without a
\* source never makes the conversion fail, and the first clip is then looked
\* up with index 0.
C6_InitialSceneTolerated ==
    InitialSceneMissing =>
        /\ ~(pc = "failed" /\ error.line = 77)
        /\ (pc = "loop" /\ pos = 1) => current_source = 0

\* C7: without a catalogue the conversion stops in its first step (with the
\* exception of line 45 when the video mode could be read, with the ValueError
\* of the video mode otherwise) and with an empty one it stops with an error
\* before any clip: no timeline is returned, whatever the events.
C7_NoCatalogueIsFatal ==
    /\ ~metadata.hasSources =>
          /\ pc \in {"setup", "failed"}
          /\ (pc = "failed" /\ VideoModeValid) => error = Raise("Exception", 45)
    /\ (metadata.hasSources /\ metadata.sources = <<>>) =>
          /\ pc \notin {"return", "done"}
          /\ track = <<>>
    /\ CatalogueKeys = {} =>
          /\ result = "none"
          /\ pc = "failed" \/ Running

C7_Witness ==
    /\ metadata.hasSources
    /\ metadata.sources = <<>>
    /\ Len(timeline_data) = 2
    /\ pc = "failed"
    /\ error = Raise("KeyError", 90)

\* C7, the other case: a header without the sources key, events present, has
\* stopped with the exception of line 45.
C7_AbsentKeyRaised ==
    /\ ~metadata.hasSources
    /\ VideoModeValid
    /\ Len(timeline_data) = 2
    /\ pc = "failed"
    /\ error = Raise("Exception", 45)
    /\ track = <<>>
    /\ result = "none"

\* C8: a valid header (a readable video mode, a catalogue) and no event line
\* stop with the IndexError of the final timecode: the catalogue is not built,
\* the loop is not entered, nothing is returned.
C8_NoEventsIsFatal ==
    (timeline_data = <<>> /\ metadata.hasSources /\ VideoModeValid) =>
        /\ pc \in {"setup", "range", "failed"}
        /\ pc = "failed" => error = Raise("IndexError", 50)
        /\ track = <<>>
        /\ result = "none"
        /\ pc = "failed" \/ Running

C8_Witness ==
    /\ VideoModeValid
    /\ metadata.sources # <<>>
    /\ ~InitialSceneMissing
    /\ timeline_data = <<>>
    /\ pc = "failed"
    /\ error = Raise("IndexError", 50)

\* The range from frame 0 to the offset of the last line of the file from the
\* reference, at rate r.
WholeShow(r) ==
    TimeRange(RationalTime(0, r),
              RationalTime(
                  from_timecode(timeline_data[Len(timeline_data)].masterTimecode,
                                r).value
                    - from_timecode(metadata.masterTimecode, r).value,
                  r))

\* The lookup of lines 62-73 has been built.
ExtrefsBuilt ==
    \/ pc \in {"scene", "loop", "return", "done"}
    \/ pc = "failed" /\ error.line \in {77, 90}

\* C9: once the lookup is built (before the loop) every source of the
\* catalogue is in it, and from then on, wherever the loop halts, every
\* source with a file has a media reference whose available range starts at
\* frame 0 and lasts from the reference to the last line of the file; a
\* source without a file has none.
C9_AvailableRange ==
    /\ ExtrefsBuilt => DOMAIN extrefs = CatalogueKeys
    /\ ~ExtrefsBuilt => DOMAIN extrefs = {}
    /\ \A k \in DOMAIN extrefs :
          /\ k \in CatalogueKeys
          /\ extrefs[k].ref =
                IF CatalogueEntry(k).hasFile
                THEN ExternalReference(CatalogueEntry(k).file,
                                       WholeShow(InputRate))
                ELSE None

C9_Witness ==
    /\ result = "timeline"
    /\ DOMAIN extrefs = CatalogueKeys
    /\ Cardinality(CatalogueKeys) = 2
    /\ Len(track) < Len(timeline_data)
    /\ ReferenceFrame > 0
    /\ EventFrame(Len(track)) # EventFrame(Len(timeline_data))
    /\ \E k \in DOMAIN extrefs : extrefs[k].ref # None
    /\ \E k \in DOMAIN extrefs : extrefs[k].ref = None

\* C10: the active index is looked up when the next event is processed: every
\* clip is of a catalogue key, the conversion stops with the KeyError of line
\* 90 exactly at an event whose active index is no key (clips may have been
\* appended before), and the index carried by the last processed event is
\* never looked up.
C10_ActiveIndexIsKey ==
    /\ \A k \in 1..Len(track) : ActiveBefore(k) \in CatalogueKeys
    /\ (pc = "failed" /\ error.line = 90) =>
          /\ Len(track) < HaltPosition
          /\ ActiveBefore(Len(track) + 1) \notin CatalogueKeys
    /\ pc = "loop" => \A k \in 1..(pos - 1) : ActiveBefore(k) \in CatalogueKeys
    /\ pc \in {"return", "done"} =>
          \A k \in 1..HaltPosition : ActiveBefore(k) \in CatalogueKeys
    /\ (Stopped /\ timeline_data # <<>> /\ metadata.hasSources
          /\ metadata.mixEffectBlocks.shape # "empty" /\ VideoModeValid) =>
          (result = "timeline" <=>
              \A k \in 1..HaltPosition : ActiveBefore(k) \in CatalogueKeys)

\* C10, the accepted half: a timeline is returned although the last processed
\* event switched to an index that is no catalogue key (it is left in
\* current_source, never looked up), after an earlier switch to a key was
\* looked up.
C10_UnknownLastSwitchReturned ==
    /\ result = "timeline"
    /\ Len(track) = Len(timeline_data)
    /\ Len(track) >= 2
    /\ timeline_data[Len(timeline_data)].mixEffectBlocks.hasSource
    /\ timeline_data[Len(timeline_data)].mixEffectBlocks.source \notin CatalogueKeys
    /\ current_source \notin DOMAIN extrefs
    /\ \A k \in 1..Len(track) : ActiveBefore(k) \in CatalogueKeys

\* C10, the fatal half: the KeyError of line 90 after two clips were appended,
\* no timeline returned.
C10_FailedAfterClips ==
    /\ pc = "failed"
    /\ error = Raise("KeyError", 90)
    /\ Len(track) = 2
    /\ InitialIndex \in CatalogueKeys
    /\ result = "none"

====
